---------------------------- MODULE Spec2Model ----------------------------
(***************************************************************************)
(* Isochrona: graph construction (network_utils.build_graph_from_roads)    *)
(* and the isochrone engine (isochrone_utils.compute_isochrones_for_       *)
(* distance / compute_multi_distance_isochrones, boundary_utils), the     *)
(* handlers of the front end on st.session_state (app, ui_steps, workflow, *)
(* state_utils) and boundary_utils.concave_isochrone_from_subgraph.        *)
(*                                                                         *)
(* Coordinates are integer pairs <<x, y>> in metres.  Node coordinates are *)
(* drawn from NodeCoords, a set whose pairwise Euclidean distances are     *)
(* integers, so edge lengths and path sums are exact.  A KD-tree query     *)
(* distance is carried by its square; every comparison the code makes on   *)
(* it (dist > max_snap_dist, nearest of) is preserved by squaring.         *)
(***************************************************************************)
EXTENDS Integers, Sequences, FiniteSets, TLC

VARIABLES
    \* ---- build_graph_from_roads, geometry by geometry (SpecBuild) ----
    bpc,          \* "loop" | "returned" | "raised"
    idx,          \* number of road geometries consumed by the for-loop
    G,            \* the nx.Graph under construction / built
    kdtree,       \* the cKDTree (NoTree until built)
    node_keys,    \* list of nodes, row i of the tree is node_keys[i]
    pairsSeen,    \* history: consecutive coordinate pairs of non-null parts read
    nullsSeen,    \* history: number of None geometries read
    pairsTwice,   \* history: unordered pairs {u, v} read at least twice
    \* ---- one engine run on a built graph (SpecRun) ----
    roads,        \* the road collection handed to build_graph_from_roads
    points,       \* points_gdf.geometry; row k carries the attributes of origin k
    distances_m,  \* the threshold list as the caller gives it
    edge_width_m,
    smooth_m,
    max_snap_dist,
    boundary_mode,
    has_alphashape, \* boundary_utils.HAS_ALPHASHAPE
    quiet,
    pc,           \* "idle" | "build" | "build_raised" | "call" | "loop" |
                  \* "assemble" | "returned" | "raised"
    path,         \* "none" | "single" | "multi"
    i,            \* number of origins the for-loop has processed
    centers,      \* history: per processed origin its snapped node, or NoNode
    dists,        \* distance map of the origin processed last
    within,       \* per threshold: nodes_within of the origin processed last
    contours_by_dist, \* per threshold: list of contours (None for a skip)
    warnings,     \* the local warnings list
    shown,        \* warnings displayed through st.info
    errors,       \* messages displayed through st.error
    iso_completed,
    searches,     \* history: <<origin, source, cutoff>> per Dijkstra call
    allWarnings,  \* history: every warning appended, <<origin, kind>>
    result,       \* the returned record collection (None until the return)
    \* ---- a user session of the front end (SpecSession) ----
    session_state, \* st.session_state: points_gdf, roads_gdf, iso_wgs84,
                   \* crs_metric, graph_data
    ui,           \* "none" | "app" (app.main) | "steps" (ui_steps, workflow) |
                  \* "direct" (the engine called on a built graph)
    handler,      \* the handler run last: its name, the boundary mode, the CRS
                  \* and the thresholds it was asked for, its return value and
                  \* its message
    clicks,       \* number of handlers run in the session
    roads_file,   \* app.main: the road file the uploader holds (None without
                  \* one); the script reads it again on every run
    \* ---- one call of concave_isochrone_from_subgraph (SpecConcave) ----
    concave_call  \* its arguments, what alphashape answers, and its result

buildVars == <<bpc, idx, G, kdtree, node_keys, pairsSeen, nullsSeen, pairsTwice>>
inputVars == <<roads, points, distances_m, edge_width_m, smooth_m,
               max_snap_dist, boundary_mode, has_alphashape, quiet>>
loopVars == <<i, centers, dists, within, contours_by_dist, warnings, shown,
              errors, iso_completed, searches, allWarnings>>
runVars == <<inputVars, pc, path, loopVars, result>>
sessVars == <<session_state, ui, handler, clicks, roads_file>>
vars == <<buildVars, runVars, sessVars, concave_call>>

-----------------------------------------------------------------------------
(* Bounds of the model *)

\* road geometries read by one build in SpecBuild
MaxGeoms == 2
\* coordinates of one simple line part
MaxCoords == 3
\* parts of one MultiLineString
MaxParts == 2
\* origins of one batch
MaxPoints == 2
\* entries of the threshold list
MaxDists == 2

-----------------------------------------------------------------------------
(* Coordinates and geometries *)

A0 == <<0, 0>>
B0 == <<100, 0>>
C0 == <<200, 0>>
D0 == <<100, 75>>

\* all pairwise distances are integers: 100, 200, 125, 75
NodeCoords == {A0, B0, C0, D0}
\* the coordinates SpecBuild draws its lines from
BuildCoords == {A0, B0, D0}

None == [type |-> "None"]
LineString(cs) == [type |-> "LineString", coords |-> cs]
MultiLineString(ps) == [type |-> "MultiLineString", geoms |-> ps]

Min(S) == CHOOSE m \in S : \A n \in S : m <= n
Max(S) == CHOOSE m \in S : \A n \in S : m >= n

Range(s) == {s[k] : k \in DOMAIN s}

SqDist(p, q) == (p[1] - q[1]) * (p[1] - q[1]) + (p[2] - q[2]) * (p[2] - q[2])

Abs(n) == IF n < 0 THEN -n ELSE n

\* LineString([u, v]).length: the square root of the squared distance, looked
\* for between max(|dx|, |dy|) and |dx| + |dy|, where it lies
SegLength(u, v) ==
    LET dx == Abs(u[1] - v[1])
        dy == Abs(u[2] - v[2])
        n == SqDist(u, v)
    IN  CHOOSE r \in (IF dx > dy THEN dx ELSE dy)..(dx + dy) :
            r * r <= n /\ n < (r + 1) * (r + 1)

-----------------------------------------------------------------------------
(* nx.Graph: nodes in insertion order with their attribute dicts, and an    *)
(* undirected adjacency keyed by the unordered pair {u, v} ({u} for a loop) *)

EmptyGraph == [nodes |-> <<>>, attr |-> <<>>, length |-> <<>>]

HasNode(g, n) == n \in Range(g.nodes)

\* G.add_node(n, x=.., y=..): a new node is appended, attributes are updated
AddNode(g, n, x, y) ==
    [g EXCEPT !.nodes = IF HasNode(g, n) THEN @ ELSE Append(@, n),
              !.attr = [m \in DOMAIN @ \cup {n} |->
                            IF m = n THEN [x |-> x, y |-> y] ELSE @[m]]]

\* a merge that adds the new length to the one already stored
AddEdgeSumLength(g, u, v, len) ==
    [g EXCEPT !.length = [e \in DOMAIN @ \cup {{u, v}} |->
                              IF e = {u, v}
                              THEN (IF e \in DOMAIN @ THEN @[e] + len ELSE len)
                              ELSE @[e]]]

\* G.add_edge(u, v, length=..): the pair's attribute dict is created or
\* updated; one entry per unordered pair (nx.Graph is not a multigraph)
AddEdge(g, u, v, len) ==
    [g EXCEPT !.length = [e \in DOMAIN @ \cup {{u, v}} |->
                              IF e = {u, v} THEN len ELSE @[e]]]

Edges(g) == DOMAIN g.length

\* G.number_of_edges(u, v) of an nx.Graph, e = {u, v}
NumberOfEdges(g, e) == IF e \in Edges(g) THEN 1 ELSE 0

Neighbors(g, n) == {m \in Range(g.nodes) : {n, m} \in Edges(g)}

\* G.degree(n): a self-loop counts twice
Degree(g, n) ==
    Cardinality({e \in Edges(g) : n \in e}) + (IF {n} \in Edges(g) THEN 1 ELSE 0)

\* a walk that adds both ends and leaves out an edge of no length
AddSegmentSkipLoop(g, u, v) ==
    LET g1 == IF HasNode(g, u) THEN g ELSE AddNode(g, u, u[1], u[2])
        g2 == IF HasNode(g1, v) THEN g1 ELSE AddNode(g1, v, v[1], v[2])
    IN  IF u = v THEN g2 ELSE AddEdge(g2, u, v, SegLength(u, v))

\* network_utils.py lines 30-38, one consecutive coordinate pair
AddSegment(g, u, v) ==
    LET g1 == IF HasNode(g, u) THEN g ELSE AddNode(g, u, u[1], u[2])
        g2 == IF HasNode(g1, v) THEN g1 ELSE AddNode(g1, v, v[1], v[2])
    IN  AddEdge(g2, u, v, SegLength(u, v))

\* zip(coords[:-1], coords[1:]) walked in order
RECURSIVE AddLineFrom(_, _, _)
AddLineFrom(g, cs, k) ==
    IF k >= Len(cs) THEN g
    ELSE AddLineFrom(AddSegment(g, cs[k], cs[k + 1]), cs, k + 1)

\* a walk over disjoint pairs, zip(coords[0::2], coords[1::2])
RECURSIVE AddLineDisjointFrom(_, _, _)
AddLineDisjointFrom(g, cs, k) ==
    IF k >= Len(cs) THEN g
    ELSE AddLineDisjointFrom(AddSegment(g, cs[k], cs[k + 1]), cs, k + 2)

AddLineDisjointPairs(g, cs) == AddLineDisjointFrom(g, cs, 1)

AddLine(g, cs) == AddLineFrom(g, cs, 1)

RECURSIVE AddLines(_, _, _)
AddLines(g, ls, k) ==
    IF k > Len(ls) THEN g ELSE AddLines(AddLine(g, ls[k]), ls, k + 1)

\* lines 25-38: lines = geom.geoms if MultiLineString else [geom]
LinesOf(geom) ==
    IF geom.type = "MultiLineString" THEN geom.geoms ELSE <<geom.coords>>

\* one iteration of the for-loop over roads_gdf.geometry
AddGeom(g, geom) == IF geom = None THEN g ELSE AddLines(g, LinesOf(geom), 1)

RECURSIVE AddGeoms(_, _, _)
AddGeoms(g, gs, k) ==
    IF k > Len(gs) THEN g ELSE AddGeoms(AddGeom(g, gs[k]), gs, k + 1)

\* valid_nodes = [n for n in G.nodes if G.degree(n) > 0]
ValidNodes(g) == SelectSeq(g.nodes, LAMBDA n : Degree(g, n) > 0)

NoTree == [built |-> FALSE, data |-> <<>>]

\* node_xy = np.array([(x, y) for n in node_keys], float)
NodeXY(g, keys) == [k \in DOMAIN keys |-> <<g.attr[keys[k]].x, g.attr[keys[k]].y>>]

\* cKDTree(node_xy) accepts only an (n, m) array; the array of an empty list
\* has shape (0,), and the constructor raises ValueError
KDTreeRaises(xy) == Len(xy) = 0

cKDTree(xy) == [built |-> TRUE, data |-> xy]

-----------------------------------------------------------------------------
(* build_graph_from_roads, one road geometry per step (SpecBuild)          *)

\* simple lines: empty, or 2..MaxCoords coordinates
BuildLines ==
    {LineString(<<>>)} \cup
    {LineString(cs) : cs \in UNION {[1..n -> BuildCoords] : n \in 2..MaxCoords}}

\* multi-part lines: 1..MaxParts parts, each a two-point line: one segment in
\* both directions and a second segment that shares an end with it
BuildParts == {<<A0, B0>>, <<B0, A0>>, <<D0, A0>>}
BuildMultiLines ==
    {MultiLineString(ps) : ps \in UNION {[1..n -> BuildParts] : n \in 1..MaxParts}}

BuildGeoms == {None} \cup BuildLines \cup BuildMultiLines

\* the consecutive coordinate pairs of one geometry's parts
PairsOfLine(cs) == {<<cs[k], cs[k + 1]>> : k \in 1..(Len(cs) - 1)}
PairsOfGeom(geom) ==
    IF geom = None THEN {}
    ELSE UNION {PairsOfLine(LinesOf(geom)[k]) : k \in DOMAIN LinesOf(geom)}

\* the positions <<part, k>> of one geometry where the unordered pair e is read
PositionsOf(geom, e) ==
    IF geom = None THEN {}
    ELSE LET lines == LinesOf(geom)
         IN  UNION {{<<l, k>> : k \in {m \in 1..(Len(lines[l]) - 1) :
                                          {lines[l][m], lines[l][m + 1]} = e}} :
                    l \in DOMAIN lines}

\* the unordered pairs that reading geom after the pairs in seen makes repeated:
\* read before in either direction, or read twice by geom itself
RepeatedBy(seen, geom) ==
    {e \in {{p[1], p[2]} : p \in PairsOfGeom(geom)} :
        \/ e \in {{p[1], p[2]} : p \in seen}
        \/ Cardinality(PositionsOf(geom, e)) >= 2}

RECURSIVE RepeatedInRoads(_, _, _)
RepeatedInRoads(rs, k, seen) ==
    IF k > Len(rs) THEN {}
    ELSE RepeatedBy(seen, rs[k]) \cup
         RepeatedInRoads(rs, k + 1, seen \cup PairsOfGeom(rs[k]))

\* state_utils.init_session_state: the defaults of a new session
DefaultCrs == "EPSG:32637"
InitialSession ==
    [points_gdf |-> None, roads_gdf |-> None, iso_wgs84 |-> None,
     crs_metric |-> DefaultCrs, graph_data |-> None]

\* no handler has run
NoHandler ==
    [name |-> "none", mode |-> "", crs |-> "", distances |-> <<>>,
     ret |-> "", msg |-> ""]

\* no front end: the graph build and the engine on their own
sessIdle ==
    /\ session_state = InitialSession /\ ui = "none"
    /\ handler = NoHandler /\ clicks = 0 /\ roads_file = None

\* concave_isochrone_from_subgraph is not being called
NoCall == [pc |-> "none"]

\* the locals of a run before its first statement
runFresh ==
    /\ path = "none" /\ i = 0 /\ centers = <<>>
    /\ dists = <<>> /\ within = <<>> /\ contours_by_dist = <<>>
    /\ warnings = <<>> /\ shown = <<>> /\ errors = <<>> /\ iso_completed = 0
    /\ searches = <<>> /\ allWarnings = <<>> /\ result = None

runIdle ==
    /\ roads = <<>> /\ points = <<>> /\ distances_m = <<>>
    /\ edge_width_m = 0 /\ smooth_m = 0
    /\ max_snap_dist = 0 /\ boundary_mode = "buffer"
    /\ has_alphashape = TRUE /\ quiet = TRUE
    /\ pc = "idle" /\ runFresh
    /\ sessIdle /\ concave_call = NoCall

\* lines 13-18: G = nx.Graph(), nothing read yet
InitBuild ==
    /\ bpc = "loop" /\ idx = 0 /\ G = EmptyGraph
    /\ kdtree = NoTree /\ node_keys = <<>>
    /\ pairsSeen = {} /\ nullsSeen = 0 /\ pairsTwice = {}
    /\ runIdle

\* lines 21-23: a None geometry is skipped
BuildSkipNull ==
    /\ bpc = "loop" /\ idx < MaxGeoms
    /\ idx' = idx + 1
    /\ nullsSeen' = nullsSeen + 1
    /\ G' = AddGeom(G, None)
    /\ UNCHANGED <<sessVars, concave_call, bpc, kdtree, node_keys, pairsSeen, pairsTwice, runVars>>

\* lines 25-40: a line or multi-line geometry is walked into the graph
BuildAddGeom ==
    /\ bpc = "loop" /\ idx < MaxGeoms
    /\ \E geom \in BuildGeoms \ {None} :
          /\ G' = AddGeom(G, geom)
          /\ pairsSeen' = pairsSeen \cup PairsOfGeom(geom)
          /\ pairsTwice' = pairsTwice \cup RepeatedBy(pairsSeen, geom)
    /\ idx' = idx + 1
    /\ UNCHANGED <<sessVars, concave_call, bpc, kdtree, node_keys, nullsSeen, runVars>>

\* lines 44-55: the collection is exhausted, the KD-tree is built
BuildFinish ==
    /\ bpc = "loop"
    /\ LET keys == ValidNodes(G)
           xy == NodeXY(G, keys)
       IN  IF KDTreeRaises(xy)
           THEN /\ bpc' = "raised"
                /\ UNCHANGED <<kdtree, node_keys>>
           ELSE /\ bpc' = "returned"
                /\ kdtree' = cKDTree(xy)
                /\ node_keys' = keys
    /\ UNCHANGED <<sessVars, concave_call, idx, G, pairsSeen, nullsSeen, pairsTwice, runVars>>

NextBuild == BuildSkipNull \/ BuildAddGeom \/ BuildFinish

SpecBuild == InitBuild /\ [][NextBuild]_vars

-----------------------------------------------------------------------------
(* The engine's pure parts                                                  *)

\* no node: the origin did not snap
NoNode == <<>>

\* sorted(set(distances_m))
RECURSIVE SortedSeq(_)
SortedSeq(S) == IF S = {} THEN <<>> ELSE <<Min(S)>> \o SortedSeq(S \ {Min(S)})

\* the list as the caller gives it
DistancesAsGiven(ds) == ds

DistancesSorted(ds) == SortedSeq(Range(ds))

\* kdtree.query([x, y], k=1): the nearest row and its distance (here its
\* square); an empty tree answers an infinite distance and the row count
KDQuery(tree, p) ==
    IF Len(tree.data) = 0 THEN [inf |-> TRUE, d2 |-> 0, idx |-> Len(tree.data) + 1]
    ELSE LET best == Min({SqDist(p, tree.data[k]) : k \in DOMAIN tree.data})
         IN  [inf |-> FALSE, d2 |-> best,
              idx |-> Min({k \in DOMAIN tree.data : SqDist(p, tree.data[k]) = best})]

\* nearest_node_id: if dist >= max_snap_dist: raise ValueError
SnapFailsAtTolerance(q, tol) == q.inf \/ q.d2 >= tol * tol

\* nearest_node_id, lines 38-45 and 198-205: if dist > max_snap_dist: raise
SnapFails(q, tol) == q.inf \/ q.d2 > tol * tol

\* nx.single_source_dijkstra_path_length(G, source, cutoff, weight="length"):
\* the source is settled at 0; the closest fringe entry is settled next, and a
\* neighbour is pushed when its tentative distance is within the cutoff and
\* improves on what was seen
RECURSIVE DijkstraLoop(_, _, _, _, _)
DijkstraLoop(g, cutoff, dist, seen, fringe) ==
    IF fringe = {} THEN dist
    ELSE LET top == CHOOSE t \in fringe : \A o \in fringe : t[1] <= o[1]
             d == top[1]
             v == top[2]
         IN  IF v \in DOMAIN dist
             THEN DijkstraLoop(g, cutoff, dist, seen, fringe \ {top})
             ELSE LET dist1 == [n \in DOMAIN dist \cup {v} |->
                                   IF n = v THEN d ELSE dist[n]]
                      push == {u \in Neighbors(g, v) :
                                 /\ d + g.length[{v, u}] <= cutoff
                                 /\ u \notin DOMAIN dist1
                                 /\ (u \notin DOMAIN seen
                                       \/ d + g.length[{v, u}] < seen[u])}
                      seen1 == [n \in DOMAIN seen \cup push |->
                                   IF n \in push THEN d + g.length[{v, n}]
                                   ELSE seen[n]]
                  IN  DijkstraLoop(g, cutoff, dist1, seen1,
                          (fringe \ {top}) \cup
                              {<<d + g.length[{v, u}], u>> : u \in push})

\* a search that reports only the nodes away from the source
DijkstraBeyondSource(g, source, cutoff) ==
    LET dm == DijkstraLoop(g, cutoff, <<>>, [n \in {source} |-> 0], {<<0, source>>})
    IN  [n \in {m \in DOMAIN dm : dm[m] > 0} |-> dm[n]]

\* a search that stops short of the cutoff: dist < cutoff instead of <=
DijkstraBelowCutoff(g, source, cutoff) ==
    DijkstraLoop(g, cutoff - 1, <<>>, [n \in {source} |-> 0], {<<0, source>>})

Dijkstra(g, source, cutoff) ==
    DijkstraLoop(g, cutoff, <<>>, [n \in {source} |-> 0], {<<0, source>>})

\* [n for n, dist in dists.items() if dist < d]
NodesWithinStrict(ds, d) == {n \in DOMAIN ds : ds[n] < d}

\* [n for n, dist in dists.items() if dist >= d]
NodesBeyond(ds, d) == {n \in DOMAIN ds : ds[n] >= d}

\* every threshold takes the nodes of the whole distance map
NodesWithinMax(ds, d) == DOMAIN ds

\* line 236: nodes_within = [n for n, dist in dists.items() if dist <= d]
NodesWithin(ds, d) == {n \in DOMAIN ds : ds[n] <= d}

\* edges with at least one endpoint among the nodes
TouchingEdges(g, ns) == {e \in Edges(g) : e \cap ns # {}}

\* G.subgraph(nodes).edges(): the edges whose both endpoints are among nodes
SubEdges(g, ns) == {e \in Edges(g) : e \subseteq ns}

\* buffer_isochrone_from_segments: no segment, no polygon; otherwise the
\* union of the segments buffered by edge_width_m (> 0) and closed by
\* smooth_m is a non-empty area, of which the outer ring of the largest part
\* is returned.  The segments of a run are those of a connected subgraph with
\* no zero-length edge, so the area is one part covering every segment.
BufferIso(segs, w, s) ==
    IF segs = {} THEN None
    ELSE [type |-> "Polygon", by |-> "buffer", covers |-> segs, w |-> w, s |-> s]

\* concave_isochrone_from_subgraph with the alpha-shape library present: a
\* polygon over the reachable nodes (hull or alpha shape)
ConcaveIso(ns) ==
    IF ns = {} THEN None
    ELSE [type |-> "Polygon", by |-> "concave", covers |-> ns, w |-> 0, s |-> 0]

\* lines 246-259 (63-76): the contour of one node set and whether
\* concave_isochrone_from_subgraph raised RuntimeError (reported by st.error)
ConcaveRaises(mode, alphaOk) == mode = "concave" /\ ~alphaOk

\* concave mode without the alpha-shape library falls back to the buffer
ContourBufferFallback(g, ns, mode, alphaOk, w, s) ==
    IF mode = "concave" /\ alphaOk THEN ConcaveIso(ns)
    ELSE BufferIso(SubEdges(g, ns), w, s)

Contour(g, ns, mode, alphaOk, w, s) ==
    IF mode = "concave"
    THEN IF alphaOk THEN ConcaveIso(ns) ELSE None
    ELSE BufferIso(SubEdges(g, ns), w, s)

\* one Dijkstra call per threshold
SearchPerThreshold(k, c, ds) == [j \in DOMAIN ds |-> <<k, c, ds[j]>>]

\* lines 207 and 223-225: the searches started for origin k snapped to c,
\* one call with cutoff = max(distances_sorted)
SearchesOfOrigin(k, c, ds) == <<<<k, c, ds[Len(ds)]>>>>

\* a skipped origin is recorded in the list of the smallest threshold only
SkipContoursOfFirst(cbd) ==
    [d \in DOMAIN cbd |->
        IF d = Min(DOMAIN cbd) THEN Append(cbd[d], None) ELSE cbd[d]]

\* a skipped origin leaves the contour lists as they are
SkipWithoutPadding(cbd) == cbd

\* lines 216-217 (228-229): contours_by_dist[d].append(None) for every d
SkipContours(cbd) == [d \in DOMAIN cbd |-> Append(cbd[d], None)]

\* a counter that advances once per origin
IsoCompletedPerOrigin(n, ds) == n + 1

\* lines 218, 230, 239, 262: iso_completed += 1, once for every threshold of
\* the origin
IsoCompleted(n, ds) == n + Len(ds)

\* line 209: total_iso = max(1, total_points * total_d)
TotalIso(pts, ds) == Max({1, Len(pts) * Len(ds)})

\* lines 89-94 / 189-194: flush_warnings
WarnBufferSize == 10
LogEvery == 50

Take(sq, n) == IF Len(sq) <= n THEN sq ELSE SubSeq(sq, 1, n)

ShownAfterFlush(q, ws, sh) ==
    IF q \/ ws = <<>> THEN sh ELSE sh \o Take(ws, WarnBufferSize)
WarningsAfterFlush(q, ws) == IF q \/ ws = <<>> THEN ws ELSE <<>>

\* rows that join the contours left after dropping the nulls with the first
\* point attributes, by their position among the contours kept
RowsOfCompacted(pts, cs, d) ==
    LET keep == SelectSeq([k \in DOMAIN cs |-> k], LAMBDA k : cs[k] # None)
    IN  [j \in DOMAIN keep |->
            [id |-> j, pt |-> pts[j], dist_m |-> d, geometry |-> cs[keep[j]]]]

\* rows that keep a null geometry for every skipped origin
RowsOfNullPadded(pts, cs, d) ==
    [k \in DOMAIN cs |-> [id |-> k, pt |-> pts[k], dist_m |-> d, geometry |-> cs[k]]]

\* lines 284-297 / 115-129: the point attributes joined by position with the
\* contours of one threshold, rows with a null (or empty) geometry dropped
RowsOf(pts, cs, d) ==
    LET keep == SelectSeq([k \in DOMAIN cs |-> k], LAMBDA k : cs[k] # None)
    IN  [j \in DOMAIN keep |->
            [id |-> keep[j], pt |-> pts[keep[j]], dist_m |-> d,
             geometry |-> cs[keep[j]]]]

RECURSIVE ConcatRows(_, _, _, _)
ConcatRows(pts, cbd, ds, j) ==
    IF j > Len(ds) THEN <<>>
    ELSE RowsOf(pts, cbd[ds[j]], ds[j]) \o ConcatRows(pts, cbd, ds, j + 1)

\* an assembly that hands whatever it has to pd.concat
NoResultsUnchecked(rows) == FALSE

\* line 303: if not all_results (the single path returns its one frame as it is)
NoResults(rows) == rows = <<>>

\* line 311: pd.concat of an empty list raises ValueError
ConcatRaises(rows) == rows = <<>>

-----------------------------------------------------------------------------
(* One engine run: build_graph_from_roads on a road collection, then        *)
(* compute_multi_distance_isochrones on the built graph (SpecRun)           *)

SeqsUpTo(S, n) == UNION {[1..k -> S] : k \in 0..n}

\* road collections of the runs: a straight road A-B-C; a kite with two routes
\* between A and C and a null entry; two separate roads; a detour A-D-B; no
\* geometry at all; only a null geometry
RoadInputs ==
    { <<LineString(<<A0, B0, C0>>)>>,
      <<LineString(<<A0, B0, C0>>), None, LineString(<<A0, D0, C0>>),
        LineString(<<D0, B0>>)>>,
      <<MultiLineString(<<<<A0, B0>>, <<C0, D0>>>>)>>,
      <<LineString(<<A0, D0, B0>>)>>,
      <<>>,
      <<None>> }

\* origins: on node A; 300 m from D (375 m from B); 301 m from C (more from
\* the other nodes).  Every origin has one nearest node in each collection.
PointCoords == {<<0, 0>>, <<100, 375>>, <<200, -301>>}
DistVals == {50, 100, 150}
SnapVals == {300}
EdgeWidths == {10}
SmoothVals == {0}
Modes == {<<"buffer", TRUE>>, <<"concave", TRUE>>, <<"concave", FALSE>>}

InitRun ==
    /\ bpc = "loop" /\ idx = 0 /\ G = EmptyGraph
    /\ kdtree = NoTree /\ node_keys = <<>>
    /\ pairsSeen = {} /\ nullsSeen = 0 /\ pairsTwice = {}
    /\ roads \in RoadInputs
    /\ points \in SeqsUpTo(PointCoords, MaxPoints)
    /\ distances_m \in SeqsUpTo(DistVals, MaxDists)
    /\ edge_width_m \in EdgeWidths
    /\ smooth_m \in SmoothVals
    /\ max_snap_dist \in SnapVals
    /\ \E m \in Modes : boundary_mode = m[1] /\ has_alphashape = m[2]
    /\ quiet \in BOOLEAN
    /\ pc = "build"
    /\ runFresh
    /\ sessIdle /\ concave_call = NoCall

\* build_graph_from_roads(roads) as one call; its ValueError reaches the caller
BuildCall ==
    /\ pc = "build"
    /\ LET g == AddGeoms(EmptyGraph, roads, 1)
           keys == ValidNodes(g)
           xy == NodeXY(g, keys)
       IN  /\ G' = g
           /\ idx' = Len(roads)
           /\ pairsSeen' = UNION {PairsOfGeom(roads[k]) : k \in DOMAIN roads}
           /\ nullsSeen' = Cardinality({k \in DOMAIN roads : roads[k] = None})
           /\ pairsTwice' = RepeatedInRoads(roads, 1, {})
           /\ IF KDTreeRaises(xy)
              THEN /\ bpc' = "raised" /\ pc' = "build_raised"
                   /\ UNCHANGED <<kdtree, node_keys>>
              ELSE /\ bpc' = "returned" /\ pc' = "call"
                   /\ kdtree' = cKDTree(xy)
                   /\ node_keys' = keys
    /\ UNCHANGED <<sessVars, concave_call, inputVars, path, loopVars, result>>

\* lines 154-209: the thresholds are sorted and deduplicated; one threshold
\* delegates to compute_isochrones_for_distance; max() of no threshold raises
StartRun ==
    /\ pc = "call"
    /\ LET ds == DistancesSorted(distances_m)
       IN  /\ contours_by_dist' = [d \in Range(ds) |-> <<>>]
           /\ IF Len(ds) = 1 THEN path' = "single" /\ pc' = "loop"
              ELSE IF Len(ds) = 0 THEN path' = "multi" /\ pc' = "raised"
              ELSE path' = "multi" /\ pc' = "loop"
    /\ UNCHANGED <<sessVars, concave_call, buildVars, inputVars, i, centers, dists, within, warnings,
                   shown, errors, iso_completed, searches, allWarnings, result>>

\* the progress block closing an iteration: lines 99-108 / 266-275
FlushDue(k) == k % LogEvery = 0 \/ k = Len(points)

\* lines 47-52 and 212-221: the origin does not snap
OriginSnapFail ==
    /\ pc = "loop" /\ i < Len(points)
    /\ SnapFails(KDQuery(kdtree, points[i + 1]), max_snap_dist)
    /\ LET ds == DistancesSorted(distances_m)
           ws == Append(warnings, <<i + 1, "snapping failed">>)
       IN  /\ allWarnings' = Append(allWarnings, <<i + 1, "snapping failed">>)
           /\ contours_by_dist' = SkipContours(contours_by_dist)
           /\ IF path = "multi"
              THEN \* continue: the progress block is not reached
                   /\ iso_completed' = IsoCompleted(iso_completed, ds)
                   /\ warnings' = ws
                   /\ shown' = shown
              ELSE /\ iso_completed' = iso_completed
                   /\ IF FlushDue(i + 1)
                      THEN /\ warnings' = WarningsAfterFlush(quiet, ws)
                           /\ shown' = ShownAfterFlush(quiet, ws, shown)
                      ELSE warnings' = ws /\ shown' = shown
    /\ i' = i + 1
    /\ centers' = Append(centers, NoNode)
    /\ dists' = <<>>
    /\ within' = <<>>
    /\ UNCHANGED <<sessVars, concave_call, buildVars, inputVars, pc, path, errors, searches, result>>

\* lines 54-76 and 223-275: the origin snaps; the distance map, the node set
\* and the contour of every threshold
OriginProcess ==
    /\ pc = "loop" /\ i < Len(points)
    /\ ~SnapFails(KDQuery(kdtree, points[i + 1]), max_snap_dist)
    /\ LET ds == DistancesSorted(distances_m)
           c == node_keys[KDQuery(kdtree, points[i + 1]).idx]
           dm == Dijkstra(G, c, ds[Len(ds)])
           nw == [d \in Range(ds) |->
                     IF path = "multi" THEN NodesWithin(dm, d) ELSE DOMAIN dm]
           made == [d \in Range(ds) |->
                     IF nw[d] = {} THEN None
                     ELSE Contour(G, nw[d], boundary_mode, has_alphashape,
                                  edge_width_m, smooth_m)]
           noPath == DOMAIN dm = {}
           w == <<i + 1, "no reachable nodes">>
           ws == IF noPath THEN Append(warnings, w) ELSE warnings
           failed == SelectSeq(ds, LAMBDA d :
                        nw[d] # {} /\ ConcaveRaises(boundary_mode, has_alphashape))
       IN  /\ centers' = Append(centers, c)
           /\ searches' = searches \o SearchesOfOrigin(i + 1, c, ds)
           /\ dists' = dm
           /\ within' = nw
           /\ allWarnings' = IF noPath THEN Append(allWarnings, w) ELSE allWarnings
           /\ contours_by_dist' =
                 [d \in DOMAIN contours_by_dist |->
                     Append(contours_by_dist[d], made[d])]
           /\ errors' = errors \o [j \in DOMAIN failed |-> <<i + 1, failed[j]>>]
           /\ iso_completed' =
                 IF path = "multi" THEN IsoCompleted(iso_completed, ds)
                 ELSE iso_completed
           /\ IF FlushDue(i + 1) /\ ~(path = "multi" /\ noPath)
              THEN /\ warnings' = WarningsAfterFlush(quiet, ws)
                   /\ shown' = ShownAfterFlush(quiet, ws, shown)
              ELSE warnings' = ws /\ shown' = shown
    /\ i' = i + 1
    /\ UNCHANGED <<sessVars, concave_call, buildVars, inputVars, pc, path, result>>

\* lines 110-130 and 277-311: the last flush, the rows of every threshold
\* without a null geometry, and the return of the record collection alone
Finish ==
    /\ pc = "loop" /\ i = Len(points)
    /\ warnings' = WarningsAfterFlush(quiet, warnings)
    /\ shown' = ShownAfterFlush(quiet, warnings, shown)
    /\ IF \E d \in DOMAIN contours_by_dist : Len(contours_by_dist[d]) # Len(points)
       THEN \* GeoDataFrame(base_df, geometry=...) refuses a list of another length
            pc' = "raised" /\ result' = result
       ELSE LET rows == ConcatRows(points, contours_by_dist,
                                   DistancesSorted(distances_m), 1)
            IN  IF NoResults(rows)
                THEN \* lines 303-308: the empty frame
                     pc' = "returned" /\ result' = <<>>
                ELSE IF ConcatRaises(rows)
                THEN pc' = "raised" /\ result' = result
                ELSE pc' = "returned" /\ result' = rows
    /\ UNCHANGED <<sessVars, concave_call, buildVars, inputVars, path, i, centers, dists, within,
                   contours_by_dist, errors, iso_completed, searches, allWarnings>>

NextRun == BuildCall \/ StartRun \/ OriginSnapFail \/ OriginProcess \/ Finish

SpecRun == InitRun /\ [][NextRun]_vars

\* the engine on threshold lists as the parsers of the front ends pass them
\* on: int() takes any integer, zero and negative ones included (SpecSigned)
SignedDistVals == {-50, 0, 50, 100}

InitSigned ==
    /\ bpc = "loop" /\ idx = 0 /\ G = EmptyGraph
    /\ kdtree = NoTree /\ node_keys = <<>>
    /\ pairsSeen = {} /\ nullsSeen = 0 /\ pairsTwice = {}
    /\ roads \in {<<LineString(<<A0, B0, C0>>)>>, <<None>>}
    /\ points \in SeqsUpTo({<<0, 0>>, <<200, -301>>}, MaxPoints)
    /\ distances_m \in SeqsUpTo(SignedDistVals, MaxDists)
    /\ edge_width_m \in EdgeWidths
    /\ smooth_m \in SmoothVals
    /\ max_snap_dist \in SnapVals
    /\ \E m \in Modes : boundary_mode = m[1] /\ has_alphashape = m[2]
    /\ quiet = TRUE
    /\ pc = "build"
    /\ runFresh
    /\ sessIdle /\ concave_call = NoCall

SpecSigned == InitSigned /\ [][NextRun]_vars

-----------------------------------------------------------------------------
(* boundary_utils.concave_isochrone_from_subgraph as a function of the      *)
(* reachable nodes, of alpha and of what the alphashape library answers     *)
(* (SpecConcave).  A shape is a record: its type, the input points on its   *)
(* outer ring, the number of its interior rings, twice its area, and the    *)
(* radius it was buffered by.                                               *)

\* node positions of the reachable subgraph: four on a line, two off it
ConcaveCoords == {<<0, 0>>, <<10, 0>>, <<20, 0>>, <<30, 0>>, <<0, 10>>, <<10, 10>>}
\* the corners of a square around three nodes in its middle
RingCoords ==
    {<<-20, -20>>, <<20, -20>>, <<20, 20>>, <<-20, 20>>, <<-5, -5>>, <<5, -5>>, <<0, 5>>}
ConcavePointSets == (SUBSET ConcaveCoords) \cup {RingCoords}

Cross(a, b, c) == (b[1] - a[1]) * (c[2] - a[2]) - (b[2] - a[2]) * (c[1] - a[1])
Collinear(S) == \A a \in S : \A b \in S : \A c \in S : Cross(a, b, c) = 0
Between(p, a, b) ==
    /\ Cross(a, b, p) = 0
    /\ Min({a[1], b[1]}) <= p[1] /\ p[1] <= Max({a[1], b[1]})
    /\ Min({a[2], b[2]}) <= p[2] /\ p[2] <= Max({a[2], b[2]})
InTriangle(p, a, b, c) ==
    /\ Cross(a, b, c) # 0
    /\ \/ Cross(a, b, p) >= 0 /\ Cross(b, c, p) >= 0 /\ Cross(c, a, p) >= 0
       \/ Cross(a, b, p) <= 0 /\ Cross(b, c, p) <= 0 /\ Cross(c, a, p) <= 0
InHullOf(p, Q) ==
    \/ \E a \in Q : \E b \in Q : Between(p, a, b)
    \/ \E a \in Q : \E b \in Q : \E c \in Q : InTriangle(p, a, b, c)

\* the corners of the convex hull, its sides, and twice its area as a fan of
\* triangles from one corner
HullVertices(S) == {p \in S : ~InHullOf(p, S \ {p})}
HullEdges(S) ==
    LET V == HullVertices(S)
    IN  {e \in SUBSET V :
            /\ Cardinality(e) = 2
            /\ \E a \in e : \E b \in e \ {a} :
                  \A c \in V \ e : \A d \in V \ e : Cross(a, b, c) * Cross(a, b, d) > 0}
RECURSIVE FanArea2(_, _)
FanArea2(v, E) ==
    IF E = {} THEN 0
    ELSE LET e == CHOOSE x \in E : TRUE
             a == CHOOSE x \in e : TRUE
             b == CHOOSE x \in e : x # a
         IN  Abs(Cross(v, a, b)) + FanArea2(v, E \ {e})
HullArea2(S) ==
    IF Collinear(S) THEN 0
    ELSE LET v == CHOOSE x \in HullVertices(S) : TRUE
         IN  FanArea2(v, {e \in HullEdges(S) : v \notin e})

Shape(type, shell, holes, area2) ==
    [type |-> type, shell |-> shell, holes |-> holes, area2 |-> area2, buffer |-> 0]
EmptyShape == Shape("GeometryCollection", {}, 0, 0)
IsEmpty(shape) == shape.type = "GeometryCollection" /\ shape.shell = {}

\* MultiPoint(pts).convex_hull: a Point, a LineString or a Polygon
ConvexHull(S) ==
    IF S = {} THEN EmptyShape
    ELSE IF Cardinality(S) = 1 THEN Shape("Point", S, 0, 0)
    ELSE IF Collinear(S) THEN Shape("LineString", HullVertices(S), 0, 0)
    ELSE Shape("Polygon", HullVertices(S), 0, HullArea2(S))

\* shape.buffer(r) of a Point or a LineString: a polygon around it
Buffer(shape, r) == [shape EXCEPT !.type = "Polygon", !.buffer = r]

\* Polygon(shape.exterior): the outer ring alone
Exterior(shape) == [shape EXCEPT !.holes = 0]

\* max(shape.geoms, key=lambda g: g.area): the first part of the largest area
Largest(parts) ==
    parts[Min({k \in DOMAIN parts :
                 \A j \in DOMAIN parts : parts[j].area2 <= parts[k].area2})]

\* the alpha argument: None, or a number of which only the sign matters
NoAlpha == [given |-> FALSE, value |-> 0]
AlphaInputs == {NoAlpha} \cup {[given |-> TRUE, value |-> v] : v \in {-1, 0, 1}}
\* alphashape.optimizealpha(pts): raises, or returns 0 or a positive value
OptimizeOutcomes ==
    {[raises |-> TRUE, value |-> 0]} \cup
    {[raises |-> FALSE, value |-> v] : v \in {0, 1}}
\* alphashape.alphashape(pts, alpha): nothing, the hull of degenerate input,
\* a polygon or a multi-polygon whose corners are input points, with or
\* without an interior ring, of a tiny area or of half the area of the hull
LibraryAreas(S) == {1, HullArea2(S) \div 2} \ {0}
\* an interior ring needs three input points, not on a line, strictly inside
\* the others
StrictlyInside(p, Q) ==
    \E a \in Q : \E b \in Q : \E c \in Q :
        Cross(a, b, p) > 0 /\ Cross(b, c, p) > 0 /\ Cross(c, a, p) > 0
LibraryHoles(S) ==
    IF \E T \in SUBSET S :
          /\ Cardinality(T) = 3 /\ ~Collinear(T)
          /\ \A p \in T : StrictlyInside(p, S \ T)
    THEN {0, 1} ELSE {0}
LibraryPolygons(S) ==
    {Shape("Polygon", S, h, a) : h \in LibraryHoles(S), a \in LibraryAreas(S)}
LibraryShapes(S) ==
    IF Collinear(S) THEN {EmptyShape, ConvexHull(S)}
    ELSE {EmptyShape} \cup LibraryPolygons(S) \cup
         {[type |-> "MultiPolygon", parts |-> <<p1, p2>>] :
             p1 \in LibraryPolygons(S), p2 \in LibraryPolygons(S)}

\* a fallback to the hull for fewer than three points only
UsesConvexBelowThree(n) == n < 3

\* line 59: if len(pts) < 4
UsesConvex(n) == n < 4

\* lines 36-57: to_polygon
ToPolygon(shape, S) ==
    IF IsEmpty(shape) THEN None
    ELSE IF shape.type = "Polygon" THEN shape
    ELSE IF shape.type = "MultiPolygon" THEN Largest(shape.parts)
    ELSE LET ch == ConvexHull(S)
         IN  IF ch.type = "Polygon" THEN ch ELSE Buffer(ch, 1)

\* lines 59-74: the hull that is normalised
HullOf(S, alpha, optimized, shape) ==
    IF UsesConvex(Cardinality(S)) THEN ConvexHull(S)
    ELSE LET alpha_value ==
                 IF alpha.given THEN alpha
                 ELSE IF optimized.raises THEN NoAlpha
                 ELSE [given |-> TRUE, value |-> optimized.value]
         IN  IF ~alpha_value.given \/ alpha_value.value <= 0 THEN ConvexHull(S)
             ELSE IF IsEmpty(shape) THEN ConvexHull(S)
             ELSE shape

\* lines 30-86
ConcaveResult(S, alpha, optimized, shape) ==
    IF S = {} THEN None
    ELSE LET convex == ConvexHull(S)
             poly == ToPolygon(HullOf(S, alpha, optimized, shape), S)
         IN  IF poly = None THEN None
             ELSE IF convex.area2 > 0 /\ 100 * poly.area2 < 5 * convex.area2
             THEN ToPolygon(convex, S)
             ELSE poly

InitConcave ==
    /\ bpc = "loop" /\ idx = 0 /\ G = EmptyGraph
    /\ kdtree = NoTree /\ node_keys = <<>>
    /\ pairsSeen = {} /\ nullsSeen = 0 /\ pairsTwice = {}
    /\ roads = <<>> /\ points = <<>> /\ distances_m = <<>>
    /\ edge_width_m = 0 /\ smooth_m = 0
    /\ max_snap_dist = 0 /\ boundary_mode = "concave"
    /\ has_alphashape \in BOOLEAN /\ quiet = TRUE
    /\ pc = "idle" /\ runFresh
    /\ sessIdle
    /\ \E S \in ConcavePointSets : \E a \in AlphaInputs :
       \E o \in OptimizeOutcomes : \E sh \in LibraryShapes(S) :
          concave_call = [pc |-> "call", pts |-> S, alpha |-> a,
                          optimized |-> o, shape |-> sh, result |-> None]

\* lines 24-28: alphashape is not installed
ConcaveRaise ==
    /\ concave_call.pc = "call" /\ ~has_alphashape
    /\ concave_call' = [concave_call EXCEPT !.pc = "raised"]
    /\ UNCHANGED <<buildVars, runVars, sessVars>>

\* lines 30-86
ConcaveReturn ==
    /\ concave_call.pc = "call" /\ has_alphashape
    /\ concave_call' =
          [concave_call EXCEPT
              !.pc = "returned",
              !.result = ConcaveResult(concave_call.pts, concave_call.alpha,
                                       concave_call.optimized, concave_call.shape)]
    /\ UNCHANGED <<buildVars, runVars, sessVars>>

NextConcave == ConcaveRaise \/ ConcaveReturn

SpecConcave == InitConcave /\ [][NextConcave]_vars

-----------------------------------------------------------------------------
(* A user session: st.session_state and the handlers of app.main, of       *)
(* ui_steps and of workflow.run_isochrone_computation (SpecSession)        *)

\* handlers run in one session
MaxClicks == 4

Wgs84 == "EPSG:4326"
\* the metric CRS codes a user enters
CrsTags == {"EPSG:32637", "EPSG:3857"}

\* model units per metre on the ground: positions are kept in metres of the
\* UTM zone; Web Mercator stretches them by 1/cos(latitude), 2 at 60 degrees
UnitsPerMetre(tag) == IF tag = "EPSG:3857" THEN 2 ELSE 1

\* gdf.to_crs(tag) of a position, a road geometry and a list of them
ToCrsPoint(p, tag) == <<UnitsPerMetre(tag) * p[1], UnitsPerMetre(tag) * p[2]>>
ToCrsGeom(geom, tag) ==
    IF geom = None THEN None
    ELSE IF geom.type = "MultiLineString"
    THEN MultiLineString([l \in DOMAIN geom.geoms |->
             [k \in DOMAIN geom.geoms[l] |-> ToCrsPoint(geom.geoms[l][k], tag)]])
    ELSE LineString([k \in DOMAIN geom.coords |-> ToCrsPoint(geom.coords[k], tag)])
ToCrsGeoms(gs, tag) == [k \in DOMAIN gs |-> ToCrsGeom(gs[k], tag)]
ToCrsPoints(ps, tag) == [k \in DOMAIN ps |-> ToCrsPoint(ps[k], tag)]

\* iso_all.to_crs("EPSG:4326") of a contour and of the record collection
FromCrsPoint(p, tag) == <<p[1] \div UnitsPerMetre(tag), p[2] \div UnitsPerMetre(tag)>>
FromCrsPolygon(poly, tag) ==
    [poly EXCEPT
        !.covers = IF poly.by = "buffer"
                   THEN {{FromCrsPoint(n, tag) : n \in e} : e \in @}
                   ELSE {FromCrsPoint(n, tag) : n \in @},
        !.w = @ \div UnitsPerMetre(tag),
        !.s = @ \div UnitsPerMetre(tag)]
IsoFrame(rows, tag) ==
    [type |-> "GeoDataFrame", crs |-> Wgs84,
     rows |-> [j \in DOMAIN rows |->
                  [rows[j] EXCEPT !.geometry = FromCrsPolygon(@, tag)]]]

\* a point layer and a road layer as session_state holds them
PointsFrame(ps) == [type |-> "GeoDataFrame", geometry |-> ps]
RoadsFrame(gs) == [type |-> "GeoDataFrame", geometry |-> gs]

\* build_graph_from_roads(roads.to_crs(tag)) and the dict stored as graph_data
BuildRaises(gs, tag) ==
    LET g == AddGeoms(EmptyGraph, ToCrsGeoms(gs, tag), 1)
    IN  KDTreeRaises(NodeXY(g, ValidNodes(g)))
GraphData(gs, tag) ==
    LET g == AddGeoms(EmptyGraph, ToCrsGeoms(gs, tag), 1)
        keys == ValidNodes(g)
    IN  [G |-> g, kdtree |-> cKDTree(NodeXY(g, keys)), node_keys |-> keys,
         crs |-> tag, nodes |-> Len(g.nodes), edges |-> Cardinality(Edges(g))]

\* the road layers, the point layer and the threshold lists of a session
SessionRoads ==
    {<<LineString(<<A0, B0, C0>>)>>, <<LineString(<<A0, D0>>)>>, <<>>}
SessionPoints == <<A0>>
SessionDists == {<<>>, <<50>>, <<50, 100>>}
\* what load_osm_roads / load_osm_roads_around_points / read_vector_file do:
\* raise, or return a road layer
LoadOutcomes ==
    {[raises |-> TRUE, edges |-> <<>>]} \cup
    {[raises |-> FALSE, edges |-> gs] : gs \in SessionRoads}

\* a new session of either front end, with or without a point layer
InitSession ==
    /\ bpc = "loop" /\ idx = 0 /\ G = EmptyGraph
    /\ kdtree = NoTree /\ node_keys = <<>>
    /\ pairsSeen = {} /\ nullsSeen = 0 /\ pairsTwice = {}
    /\ roads = <<>> /\ points = <<>> /\ distances_m = <<>>
    /\ edge_width_m = 0 /\ smooth_m = 0
    /\ max_snap_dist = 0 /\ boundary_mode = "buffer"
    /\ has_alphashape \in BOOLEAN /\ quiet = TRUE
    /\ pc = "idle" /\ runFresh
    /\ ui \in {"app", "steps"}
    /\ session_state \in
          {[InitialSession EXCEPT !.points_gdf = f] :
              f \in {None, PointsFrame(SessionPoints)}}
    /\ handler = NoHandler /\ clicks = 0 /\ roads_file = None
    /\ concave_call = NoCall

\* the engine called on a graph that build_graph_from_roads returned, with no
\* front end before it
InitDirect ==
    /\ bpc = "loop" /\ idx = 0 /\ G = EmptyGraph
    /\ kdtree = NoTree /\ node_keys = <<>>
    /\ pairsSeen = {} /\ nullsSeen = 0 /\ pairsTwice = {}
    /\ roads \in SessionRoads
    /\ points \in {SessionPoints, SessionPoints \o <<<<200, -301>>>>}
    /\ distances_m \in SessionDists
    /\ edge_width_m \in EdgeWidths
    /\ smooth_m \in SmoothVals
    /\ max_snap_dist \in SnapVals
    /\ \E m \in Modes : boundary_mode = m[1] /\ has_alphashape = m[2]
    /\ quiet = TRUE
    /\ pc = "build"
    /\ runFresh
    /\ session_state = InitialSession /\ ui = "direct"
    /\ handler = NoHandler /\ clicks = 0 /\ roads_file = None
    /\ concave_call = NoCall

\* a handler ends: its outcome is shown, the engine was not called
EndsWith(name, mode, crsq, ds, ret, msg, ss) ==
    /\ session_state' = ss
    /\ handler' = [name |-> name, mode |-> mode, crs |-> crsq, distances |-> ds,
                   ret |-> ret, msg |-> msg]
    /\ clicks' = clicks + 1
    /\ UNCHANGED <<buildVars, inputVars, pc, path, loopVars, result, ui,
                   concave_call>>
\* a handler that takes no thresholds
Ends(name, mode, crsq, ret, msg, ss) ==
    EndsWith(name, mode, crsq, <<>>, ret, msg, ss)

\* a handler calls compute_multi_distance_isochrones on the cached graph with
\* the point layer reprojected to the CRS of the query
CallsEngine(name, mode, crsq, ds, ss) ==
    /\ session_state' = ss
    /\ handler' = [name |-> name, mode |-> mode, crs |-> crsq, distances |-> ds,
                   ret |-> "running", msg |-> ""]
    /\ clicks' = clicks + 1
    /\ G' = ss.graph_data.G
    /\ kdtree' = ss.graph_data.kdtree
    /\ node_keys' = ss.graph_data.node_keys
    /\ points' = ToCrsPoints(ss.points_gdf.geometry, crsq)
    /\ distances_m' = ds
    /\ edge_width_m' \in EdgeWidths
    /\ smooth_m' \in SmoothVals
    /\ max_snap_dist' \in SnapVals
    /\ boundary_mode' = mode
    /\ pc' = "call"
    /\ UNCHANGED <<bpc, idx, pairsSeen, nullsSeen, pairsTwice, roads,
                   has_alphashape, quiet, path, loopVars, result, ui,
                   roads_file, concave_call>>

Clickable == pc = "idle" /\ clicks < MaxClicks

\* a handler that takes any threshold list
NoDistancesUnchecked(ds) == FALSE

\* workflow.py 67 and app.py 560: if not distances_m
NoDistances(ds) == ds = <<>>

\* a comparison that lets every cached graph pass
CrsCheckSkipped(gd, crsq) == FALSE

\* workflow.py 81 and app.py 569: gd.get("crs") != crs_metric
CrsMismatch(gd, crsq) == gd.crs # crsq

\* app.py 461-476: the upload branch that every run of the script executes
\* while the uploader holds a file f: the file is read again, the roads and the
\* CRS are stored again and the cached graph is dropped
ReadRoadsFile(ss, f, crs) ==
    IF f = None THEN ss
    ELSE IF f.raises THEN ss
    ELSE [ss EXCEPT !.roads_gdf = RoadsFrame(f.edges),
                    !.crs_metric = crs,
                    !.graph_data = None]

\* the session after the part of app.main that precedes the buttons of steps
\* 2 to 4; the CRS field shows session_state["crs_metric"] (app.py 436, 463)
AppRerun(ss) == ReadRoadsFile(ss, roads_file, ss.crs_metric)

\* app.py 447-459: "Download roads", shown while the road source is OSM
DownloadRoads ==
    /\ ui = "app" /\ Clickable /\ roads_file = None
    /\ UNCHANGED roads_file
    /\ \E regions \in BOOLEAN : \E o \in LoadOutcomes : \E crs \in CrsTags :
          IF ~regions
          THEN Ends("download_roads", "", crs, "None", "error_no_region",
                    session_state)
          ELSE IF o.raises
          THEN Ends("download_roads", "", crs, "None", "error_downloading_roads",
                    session_state)
          ELSE Ends("download_roads", "", crs, "None", "osm_roads_loaded",
                    [session_state EXCEPT !.roads_gdf = RoadsFrame(o.edges),
                                          !.crs_metric = crs,
                                          !.graph_data = None])

\* app.py 461-476: a road file is put into the uploader, or the CRS field is
\* edited while it holds one
UploadRoads ==
    /\ ui = "app" /\ Clickable
    /\ \E o \in LoadOutcomes : \E crs \in CrsTags :
          /\ roads_file' = o
          /\ Ends("upload_roads", "", crs, "None",
                  IF o.raises THEN "error_read_roads" ELSE "road_layer_loaded",
                  ReadRoadsFile(session_state, o, crs))

\* app.py 430-463: the file is taken out of the uploader, or the road source is
\* switched to OSM; the session keeps the roads read before
RemoveRoadsFile ==
    /\ ui = "app" /\ Clickable /\ roads_file # None
    /\ roads_file' = None
    /\ Ends("remove_roads_file", "", session_state.crs_metric, "None", "",
            session_state)

\* app.py 478-494: "Build graph using current roads"
BuildGraph ==
    /\ ui = "app" /\ Clickable
    /\ UNCHANGED roads_file
    /\ LET ss == AppRerun(session_state)
       IN  /\ ss.roads_gdf # None
           /\ LET crs == ss.crs_metric
                  gs == ss.roads_gdf.geometry
              IN  IF BuildRaises(gs, crs)
                  THEN Ends("build_graph", "", crs, "None",
                            "error_building_graph", ss)
                  ELSE Ends("build_graph", "", crs, "None", "graph_built",
                            [ss EXCEPT !.graph_data = GraphData(gs, crs)])

\* app.py 553-592: "Compute isochrones", up to the call of the engine
ComputeApp ==
    /\ ui = "app" /\ Clickable
    /\ UNCHANGED roads_file
    /\ \E ds \in SessionDists : \E mode \in {"buffer", "concave"} :
          LET ss == AppRerun(session_state)
              \* app.py 520: the CRS of the query is the one of the session
              crsq == ss.crs_metric
              stop(msg) == EndsWith("compute", mode, crsq, ds, "None", msg, ss)
          IN  IF ss.points_gdf = None THEN stop("error_upload_points")
              ELSE IF ss.roads_gdf = None THEN stop("error_provide_roads")
              ELSE IF ss.graph_data = None THEN stop("error_build_graph_first")
              ELSE IF NoDistances(ds) THEN stop("error_valid_distance")
              ELSE IF mode = "concave" /\ ~has_alphashape
              THEN stop("error_concave_missing")
              ELSE IF CrsMismatch(ss.graph_data, crsq)
              THEN stop("crs_mismatch_error")
              ELSE CallsEngine("compute", mode, crsq, ds, ss)

\* ui_steps.py 113-137: a road file is uploaded and the graph is built at once
UploadAndBuild ==
    /\ ui = "steps" /\ Clickable
    /\ UNCHANGED roads_file
    /\ \E o \in LoadOutcomes :
          LET crs == session_state.crs_metric
              ss1 == [session_state EXCEPT !.roads_gdf = RoadsFrame(o.edges)]
          IN  IF o.raises
              THEN Ends("upload_and_build", "", crs, "None", "error_read_roads",
                        session_state)
              ELSE IF BuildRaises(o.edges, crs)
              THEN Ends("upload_and_build", "", crs, "None", "error_read_roads",
                        ss1)
              ELSE Ends("upload_and_build", "", crs, "None", "roads_file_loaded",
                        [ss1 EXCEPT !.graph_data = GraphData(o.edges, crs)])

\* workflow.py 10-50: ensure_roads_and_graph, as the session it leaves and
\* whether it returned True
EnsureRoadsAndGraph(ss, road_source, o) ==
    IF ss.roads_gdf # None /\ ss.graph_data # None
    THEN [ok |-> TRUE, ss |-> ss, msg |-> ""]
    ELSE IF road_source # "osm"
    THEN [ok |-> FALSE, ss |-> ss, msg |-> "error_provide_roads"]
    ELSE IF o.raises
    THEN [ok |-> FALSE, ss |-> ss, msg |-> "error_downloading_roads"]
    ELSE LET ss1 == [ss EXCEPT !.roads_gdf = RoadsFrame(o.edges)]
         IN  IF BuildRaises(o.edges, ss.crs_metric)
             THEN [ok |-> FALSE, ss |-> ss1, msg |-> "error_downloading_roads"]
             ELSE [ok |-> TRUE,
                   ss |-> [ss1 EXCEPT
                              !.graph_data = GraphData(o.edges, ss.crs_metric)],
                   msg |-> ""]

\* workflow.py 53-98: run_isochrone_computation, up to the call of the engine
ComputeWorkflow ==
    /\ ui = "steps" /\ Clickable
    /\ UNCHANGED roads_file
    /\ \E road_source \in {"osm", "upload"} : \E o \in LoadOutcomes :
       \E ds \in SessionDists : \E mode \in {"buffer", "concave"} :
       \E crsq \in CrsTags :
          LET ss == session_state
              name == "run_isochrone_computation"
              stop(msg, s1) == EndsWith(name, mode, crsq, ds, "False", msg, s1)
          IN  IF ss.points_gdf = None THEN stop("error_upload_points", ss)
              ELSE IF NoDistances(ds) THEN stop("error_valid_distance", ss)
              ELSE IF mode = "concave" /\ ~has_alphashape
              THEN stop("error_concave_missing", ss)
              ELSE LET en == EnsureRoadsAndGraph(ss, road_source, o)
                   IN  IF ~en.ok THEN stop(en.msg, en.ss)
                       ELSE IF CrsMismatch(en.ss.graph_data, crsq)
                       THEN stop("crs_mismatch_error", en.ss)
                       ELSE CallsEngine(name, mode, crsq, ds, en.ss)

\* a handler that stores whatever the engine returned
NoRecordsUnchecked(rows) == FALSE

\* workflow.py 103 and app.py 586: len(iso_all) == 0
NoRecords(rows) == Len(rows) = 0

\* workflow.py 99-109 and app.py 584-592: the engine has returned or raised;
\* the records are stored only when there is at least one
ComputeReturn ==
    /\ handler.ret = "running" /\ pc \in {"returned", "raised"}
    /\ LET done == IF handler.name = "compute" THEN "None" ELSE "True"
           failed == IF handler.name = "compute" THEN "None" ELSE "False"
       IN  IF pc = "raised"
           THEN /\ handler' = [handler EXCEPT !.ret = failed,
                                              !.msg = "iso_compute_error"]
                /\ session_state' = session_state
           ELSE IF NoRecords(result)
           THEN /\ handler' = [handler EXCEPT !.ret = failed,
                                              !.msg = "no_iso_warning"]
                /\ session_state' = session_state
           ELSE /\ handler' = [handler EXCEPT !.ret = done, !.msg = "iso_success"]
                /\ session_state' =
                      [session_state EXCEPT
                          !.iso_wgs84 = IsoFrame(result, handler.crs)]
    \* the frame of the call is gone
    /\ G' = EmptyGraph /\ kdtree' = NoTree /\ node_keys' = <<>>
    /\ points' = <<>> /\ distances_m' = <<>>
    /\ edge_width_m' = 0 /\ smooth_m' = 0 /\ max_snap_dist' = 0
    /\ boundary_mode' = "buffer"
    /\ pc' = "idle" /\ path' = "none" /\ i' = 0 /\ centers' = <<>>
    /\ dists' = <<>> /\ within' = <<>> /\ contours_by_dist' = <<>>
    /\ warnings' = <<>> /\ shown' = <<>> /\ errors' = <<>> /\ iso_completed' = 0
    /\ searches' = <<>> /\ allWarnings' = <<>> /\ result' = None
    /\ UNCHANGED <<bpc, idx, pairsSeen, nullsSeen, pairsTwice, roads,
                   has_alphashape, quiet, ui, clicks, roads_file, concave_call>>

\* state_utils.py 15-16 and app.py 608-609: "Clear isochrones"
ClearIsochrones ==
    /\ ui \in {"app", "steps"} /\ Clickable
    /\ UNCHANGED roads_file
    /\ LET ss == IF ui = "app" THEN AppRerun(session_state) ELSE session_state
       IN  Ends("clear_isochrones", "", "", "None", "",
                [ss EXCEPT !.iso_wgs84 = None])

\* state_utils.py 19-23 and app.py 610-614: "Clear all"
ClearAll ==
    /\ ui \in {"app", "steps"} /\ Clickable
    /\ UNCHANGED roads_file
    /\ Ends("clear_all", "", "", "None", "",
            [session_state EXCEPT !.points_gdf = None, !.roads_gdf = None,
                                  !.iso_wgs84 = None, !.graph_data = None])

NextSession ==
    \/ DownloadRoads \/ UploadRoads \/ RemoveRoadsFile \/ BuildGraph
    \/ ComputeApp
    \/ UploadAndBuild \/ ComputeWorkflow \/ ComputeReturn
    \/ ClearIsochrones \/ ClearAll
    \/ BuildCall \/ StartRun \/ OriginSnapFail \/ OriginProcess \/ Finish

SpecSession == (InitSession \/ InitDirect) /\ [][NextSession]_vars

-----------------------------------------------------------------------------
(* Properties of build_graph_from_roads (SpecBuild)                         *)

\* C8 (as claimed): a road collection without any segment (no geometry, only
\* null or empty geometries) makes the build return normally, with a graph of
\* zero nodes and zero edges and an empty snap index.
C8_EmptyRoadsBuildReturns ==
    (bpc # "loop" /\ pairsSeen = {}) =>
        /\ bpc = "returned"
        /\ Len(G.nodes) = 0 /\ Edges(G) = {}
        /\ kdtree.built /\ Len(kdtree.data) = 0 /\ node_keys = <<>>

\* C10: at every point of the build the graph is the graph of the segments
\* read so far: its nodes are the distinct coordinates of the consecutive
\* pairs of the non-null parts, each stored once with its own x and y; two
\* coordinates are adjacent iff they are a consecutive pair in some part, in
\* either direction; every edge length is the Euclidean distance of its ends;
\* and a collection with at least one segment never fails, nulls or not.
C10_GraphIsTheSegmentsRead ==
    /\ Range(G.nodes) = {p[1] : p \in pairsSeen} \cup {p[2] : p \in pairsSeen}
    /\ Cardinality(Range(G.nodes)) = Len(G.nodes)
    /\ \A n \in Range(G.nodes) : G.attr[n] = [x |-> n[1], y |-> n[2]]
    /\ Edges(G) = {{p[1], p[2]} : p \in pairsSeen}
    /\ \A u \in BuildCoords \cup NodeCoords : \A v \in BuildCoords \cup NodeCoords :
          (v \in Neighbors(G, u)) <=> (<<u, v>> \in pairsSeen \/ <<v, u>> \in pairsSeen)
    /\ \A p \in pairsSeen :
          G.length[{p[1], p[2]}] * G.length[{p[1], p[2]}] = SqDist(p[1], p[2])
    /\ (bpc = "raised") => (pairsSeen = {})

\* C10 witness: a finished build that skipped a null entry and holds three
\* nodes joined by at least two edges
C10_Witness ==
    /\ bpc = "returned" /\ nullsSeen >= 1 /\ pc = "idle"
    /\ Len(G.nodes) = 3 /\ Cardinality(Edges(G)) >= 2

\* C11 as stated: an unordered pair read k times, here at least twice, is held
\* as k distinct edges, so as at least two.
C11_ParallelEdgesKept ==
    \A e \in pairsTwice : NumberOfEdges(G, e) >= 2

\* C11: a consecutive pair read several times, in any direction, in the same
\* or in different geometries, is held as exactly one edge, whose length is
\* the Euclidean distance of its ends and not a sum over the occurrences; the
\* graph has as many edges as distinct unordered pairs were read.
C11_ParallelEdgesMerged ==
    /\ \A e \in pairsTwice :
          /\ NumberOfEdges(G, e) = 1
          /\ \E u \in e : \E v \in e :
                /\ e = {u, v}
                /\ G.length[e] * G.length[e] = SqDist(u, v)
    /\ Cardinality(Edges(G)) = Cardinality({{p[1], p[2]} : p \in pairsSeen})

\* C11 witness: a finished build that read one segment in both directions
C11_Witness ==
    /\ bpc = "returned" /\ pc = "idle"
    /\ \E e \in pairsTwice : \E u \in e : \E v \in e :
          u # v /\ <<u, v>> \in pairsSeen /\ <<v, u>> \in pairsSeen

\* C26: at every step of the build every node of the graph has an incident
\* edge (a loop included); and the returned index is built over exactly the
\* nodes of degree >= 1, which are all the nodes, in the order of the graph,
\* row k of the tree holding the coordinates of node_keys[k].
C26_SnapEligibility ==
    /\ \A n \in Range(G.nodes) : Degree(G, n) >= 1
    /\ (bpc = "returned") =>
          /\ Range(node_keys) = {n \in Range(G.nodes) : Degree(G, n) >= 1}
          /\ node_keys = G.nodes
          /\ Cardinality(Range(node_keys)) = Len(node_keys)
          /\ kdtree.built /\ Len(kdtree.data) = Len(node_keys)
          /\ \A k \in DOMAIN node_keys :
                kdtree.data[k] = <<G.attr[node_keys[k]].x, G.attr[node_keys[k]].y>>

\* C26 witness: a built graph of three nodes, one of which has only a loop
\* (a coordinate repeated in its line), all three indexed
C26_Witness ==
    /\ bpc = "returned" /\ Len(node_keys) = 3
    /\ \E n \in Range(G.nodes) : Neighbors(G, n) = {n}
    /\ \E n \in Range(G.nodes) : Cardinality(Neighbors(G, n)) = 1 /\ {n} \notin Edges(G)

-----------------------------------------------------------------------------
(* Properties of one engine run (SpecRun)                                   *)

Thresholds == Range(distances_m)
Ended == pc \in {"build_raised", "raised", "returned"}
RowsOfOrigin(k) ==
    {<<result[j].dist_m, result[j].geometry>> :
        j \in {m \in DOMAIN result : result[m].id = k}}

\* the end-to-end scenario of the specification
C1_Scenario ==
    /\ roads = <<LineString(<<A0, B0, C0>>)>>
    /\ points = <<A0>>
    /\ Thresholds = {50, 150}
    /\ boundary_mode = "buffer" /\ edge_width_m = 10 /\ smooth_m = 0

\* C1 (as claimed): the scenario returns exactly two records, one tagged 50
\* and one tagged 150, each with a polygon.
C1_ScenarioTwoRecords ==
    (C1_Scenario /\ Ended) =>
        /\ pc = "returned"
        /\ Len(result) = 2
        /\ {result[j].dist_m : j \in DOMAIN result} = {50, 150}
        /\ \A j \in DOMAIN result : result[j].geometry # None

\* C1 (amended): the scenario returns exactly one record, tagged 150, whose
\* polygon is the buffer of the edge (0,0)-(100,0); threshold 50 reaches only
\* the origin's node, induces no edge and yields no record.
C1_ScenarioOneRecord ==
    (C1_Scenario /\ Ended) =>
        /\ pc = "returned"
        /\ result = << [id |-> 1, pt |-> A0, dist_m |-> 150,
                        geometry |-> BufferIso({{A0, B0}}, 10, 0)] >>

C1_Witness == C1_Scenario /\ pc = "returned" /\ Len(result) = 1

\* C2: in the multi-threshold path, for every threshold d the nodes kept by
\* filtering the max-threshold distance map to distance <= d, with their
\* distances, are the distance map of a search of its own with cutoff d.
C2_FilterEqualsOwnSearch ==
    (path = "multi" /\ i > 0 /\ centers[i] # NoNode) =>
        \A d \in DOMAIN within :
            LET own == Dijkstra(G, centers[i], d)
            IN  /\ within[d] = DOMAIN own
                /\ \A n \in within[d] : dists[n] = own[n]

\* C2 witness: a filter that keeps several nodes and drops others
C2_Witness ==
    /\ path = "multi" /\ i > 0 /\ centers[i] # NoNode
    /\ \E d \in DOMAIN within :
          Cardinality(within[d]) >= 2 /\ within[d] # DOMAIN dists

\* C3: for thresholds d1 < d2 of one origin, the node set derived for d1 is
\* a subset of the one derived for d2, and so are the induced edge sets.
C3_Monotone ==
    \A d1 \in DOMAIN within : \A d2 \in DOMAIN within :
        d1 < d2 =>
            /\ within[d1] \subseteq within[d2]
            /\ SubEdges(G, within[d1]) \subseteq SubEdges(G, within[d2])

\* C3 witness: two thresholds whose node sets and edge sets differ
C3_Witness ==
    \E d1 \in DOMAIN within : \E d2 \in DOMAIN within :
        /\ d1 < d2
        /\ within[d1] # within[d2]
        /\ SubEdges(G, within[d1]) # {}
        /\ SubEdges(G, within[d1]) # SubEdges(G, within[d2])

SearchesFor(k) == {j \in DOMAIN searches : searches[j][1] = k}

\* C4: every processed origin has started no search when it did not snap
\* and exactly one when it did, from its snapped node with cutoff
\* max(thresholds), however many thresholds there are.
C4_OneSearchPerOrigin ==
    \A k \in 1..i :
        /\ Cardinality(SearchesFor(k)) = (IF centers[k] = NoNode THEN 0 ELSE 1)
        /\ \A j \in SearchesFor(k) :
              searches[j] = <<k, centers[k], Max(Thresholds)>>

\* C4 witness: two thresholds, one origin skipped and one searched
C4_Witness ==
    /\ path = "multi" /\ Cardinality(Thresholds) >= 2 /\ i >= 2
    /\ \E k \in 1..i : centers[k] = NoNode
    /\ \E k \in 1..i : centers[k] # NoNode /\ Cardinality(SearchesFor(k)) = 1

NearestSq(p) == Min({SqDist(p, n) : n \in Range(node_keys)})

\* C5: in both paths a processed origin is rejected iff its nearest indexed
\* node is strictly farther than max_snap_dist, and an accepted origin is
\* snapped to a nearest indexed node; at exactly max_snap_dist it is accepted.
C5_SnapBoundary ==
    \A k \in 1..i :
        /\ (centers[k] = NoNode) <=>
               (NearestSq(points[k]) > max_snap_dist * max_snap_dist)
        /\ (centers[k] # NoNode) =>
               /\ centers[k] \in Range(node_keys)
               /\ SqDist(points[k], centers[k]) = NearestSq(points[k])

\* C5 witness: one origin accepted at exactly max_snap_dist, one rejected
\* one metre beyond it
C5_Witness ==
    /\ \E k \in 1..i :
          /\ centers[k] # NoNode
          /\ SqDist(points[k], centers[k]) = max_snap_dist * max_snap_dist
    /\ \E k \in 1..i :
          /\ centers[k] = NoNode
          /\ NearestSq(points[k]) = (max_snap_dist + 1) * (max_snap_dist + 1)

\* what the engine returns for an origin on its own: per threshold the
\* contour of the nodes within it, where there is one
SoloRows(p) ==
    LET c == node_keys[KDQuery(kdtree, p).idx]
        dm == Dijkstra(G, c, Max(Thresholds))
    IN  {<<d, Contour(G, NodesWithin(dm, d), boundary_mode, has_alphashape,
                      edge_width_m, smooth_m)>> : d \in Thresholds}
          \ {<<d, None>> : d \in Thresholds}

\* C6: a failed snap does not abort the run; at the return an origin that
\* did not snap has no record for any threshold and exactly one warning, and
\* every other origin has exactly the records it has on its own.
C6_SkipPolicy ==
    /\ (allWarnings # <<>>) => pc \in {"loop", "returned"}
    /\ (pc = "returned") =>
          \A k \in DOMAIN points :
              IF centers[k] = NoNode
              THEN /\ RowsOfOrigin(k) = {}
                   /\ Cardinality({j \in DOMAIN allWarnings :
                                      allWarnings[j][1] = k}) = 1
              ELSE RowsOfOrigin(k) = SoloRows(points[k])

\* C6 witness: a returned run whose first origin was skipped and whose
\* second origin has a record
C6_Witness ==
    /\ pc = "returned" /\ Len(points) = 2
    /\ centers[1] = NoNode /\ RowsOfOrigin(1) = {}
    /\ RowsOfOrigin(2) # {}

\* C7 (as claimed): when the run returns, every warning accumulated during
\* the run has reached the caller.  The return value holds records only, so
\* the one channel to the caller is the display (st.info).
C7_NoWarningLost ==
    (pc = "returned") =>
        \A j \in DOMAIN allWarnings : allWarnings[j] \in Range(shown)

\* C9 (as claimed): a run with origins on a road collection without any
\* segment ends with zero records, one snap warning per origin and no search
\* started.
C9_EmptyRoadsAllSnapFail ==
    (Ended /\ Thresholds # {} /\ points # <<>>
        /\ UNION {PairsOfGeom(roads[k]) : k \in DOMAIN roads} = {}) =>
        /\ pc = "returned"
        /\ result = <<>>
        /\ allWarnings = [k \in DOMAIN points |-> <<k, "snapping failed">>]
        /\ searches = <<>>

\* the snapped origin k reaches no node but its own within the largest threshold
Isolated(k) ==
    /\ centers[k] # NoNode /\ Thresholds # {}
    /\ DOMAIN Dijkstra(G, centers[k], Max(Thresholds)) = {centers[k]}

\* C12 as stated: a snapped origin from which no other node is reachable
\* within the largest threshold is skipped: a 'no reachable nodes' warning is
\* recorded for it and every threshold of it holds no contour; the run goes on.
C12_IsolatedOriginWarned ==
    \A k \in 1..i :
        Isolated(k) =>
            /\ \E j \in DOMAIN allWarnings : allWarnings[j] = <<k, "no reachable nodes">>
            /\ \A d \in DOMAIN contours_by_dist : contours_by_dist[d][k] = None
            /\ pc # "raised"

\* shortest-path lengths by relaxation over all edges, one round per node,
\* with no cutoff; FarAway stands for "no path"
FarAway(g) == 1 + Cardinality(Edges(g)) * Max({g.length[e] : e \in Edges(g)} \cup {0})

RECURSIVE Relax(_, _, _)
Relax(g, dist, k) ==
    IF k = 0 THEN dist
    ELSE Relax(g,
               [n \in DOMAIN dist |->
                   Min({dist[n]} \cup
                       {dist[m] + g.length[{n, m}] : m \in Neighbors(g, n)})],
               k - 1)

ShortestLengths(g, s) ==
    Relax(g, [n \in Range(g.nodes) |-> IF n = s THEN 0 ELSE FarAway(g)],
          Len(g.nodes))

\* C13: for the origin processed last, snapped to s, the distance map holds
\* exactly the nodes whose shortest-path length from s is at most the cutoff,
\* each with that length; the node set of every threshold d holds exactly the
\* nodes at most d away; and a buffer contour of d covers only edges whose two
\* ends are at most d away.
C13_CutoffCorrect ==
    (i >= 1 /\ centers[i] # NoNode) =>
        \A sp \in {ShortestLengths(G, centers[i])} :
            /\ DOMAIN dists = {n \in Range(G.nodes) : sp[n] <= Max(Thresholds)}
            /\ \A n \in DOMAIN dists : dists[n] = sp[n]
            /\ \A d \in Thresholds :
                  /\ within[d] = {n \in Range(G.nodes) : sp[n] <= d}
                  /\ \A made \in {contours_by_dist[d][i]} :
                         (made # None /\ made.by = "buffer") =>
                             \A e \in made.covers : \A n \in e : sp[n] <= d

\* C13 witness: an origin whose cutoff keeps some node out, reaches a node by
\* the shorter of two routes, and reaches a node at exactly the cutoff
C13_Witness ==
    /\ i >= 1 /\ centers[i] # NoNode
    /\ Range(G.nodes) \ DOMAIN dists # {}
    /\ \E n \in DOMAIN dists : dists[n] = Max(Thresholds) /\ n # centers[i]
    /\ \E n \in DOMAIN dists : \E m \in Neighbors(G, centers[i]) :
          /\ m \in Neighbors(G, n) /\ m # n /\ m # centers[i]
          /\ G.length[{centers[i], m}] + G.length[{m, n}] > dists[n]
    /\ \E d \in Thresholds : contours_by_dist[d][i] # None

\* C14: the returned collection holds at most one record per (origin,
\* threshold) pair; a pair has a record iff the contour made for it is not
\* null (a failed pair is dropped, no null row stands for it); and a record
\* carries the attributes of its origin, the threshold it was made for as
\* dist_m, and the polygon made for that pair.
C14_ResultShape ==
    (pc = "returned") =>
        /\ \A j1 \in DOMAIN result : \A j2 \in DOMAIN result :
              (result[j1].id = result[j2].id /\ result[j1].dist_m = result[j2].dist_m)
                  => j1 = j2
        /\ \A k \in DOMAIN points : \A d \in Thresholds :
              (\E j \in DOMAIN result : result[j].id = k /\ result[j].dist_m = d)
                  <=> contours_by_dist[d][k] # None
        /\ \A j \in DOMAIN result :
              /\ result[j].id \in DOMAIN points
              /\ result[j].pt = points[result[j].id]
              /\ result[j].dist_m \in Thresholds
              /\ result[j].geometry.type = "Polygon"
              /\ result[j].geometry = contours_by_dist[result[j].dist_m][result[j].id]

\* C14 witness: a returned batch of two origins and two thresholds in which
\* one origin has a record for one threshold only and the other has none
C14_Witness ==
    /\ pc = "returned" /\ Len(points) = 2 /\ Cardinality(Thresholds) = 2
    /\ \E k \in DOMAIN points :
          /\ Cardinality(RowsOfOrigin(k)) = 1
          /\ \A m \in DOMAIN points \ {k} : RowsOfOrigin(m) = {}
    /\ Len(result) = 1

\* the records of origin k for a set T of thresholds, from the inputs alone:
\* no order and no multiplicity of thresholds enters
ExpectedRecordsOf(k, T) ==
    LET q == KDQuery(kdtree, points[k])
    IN  IF SnapFails(q, max_snap_dist) THEN {}
        ELSE UNION {UNION {
                 {[id |-> k, pt |-> points[k], dist_m |-> d, geometry |-> c] :
                     c \in {Contour(G, {n \in Range(G.nodes) : sp[n] <= d},
                                    boundary_mode, has_alphashape,
                                    edge_width_m, smooth_m)} \ {None}} :
                 d \in T} :
             sp \in {ShortestLengths(G, node_keys[q.idx])}}

ExpectedRecords(T) == UNION {ExpectedRecordsOf(k, T) : k \in DOMAIN points}

\* C15: the records returned are a function of the set of thresholds: they
\* are the records of Range(distances_m), whatever the order and the
\* multiplicity of the list, and no record is returned twice.
C15_ThresholdsAreASet ==
    (pc = "returned") =>
        /\ Range(result) = ExpectedRecords(Thresholds)
        /\ Len(result) = Cardinality(Range(result))

\* C15 witness: a returned run whose threshold list is given in descending
\* order and has records for both thresholds
C15_Witness ==
    /\ pc = "returned" /\ Len(distances_m) = 2
    /\ distances_m[1] > distances_m[2]
    /\ \A d \in Thresholds : \E j \in DOMAIN result : result[j].dist_m = d

\* C18: a run with at least one threshold never raises, and when no (origin,
\* threshold) pair has a contour (no origin at all, every origin skipped, or
\* nothing but null contours) it returns the empty collection, on the
\* single-threshold path as on the multi-threshold path.
C18_EmptyResultReturns ==
    (Thresholds # {} /\ pc \notin {"idle", "build", "build_raised"}) =>
        /\ pc # "raised"
        /\ (/\ pc = "returned"
            /\ \A d \in Thresholds : \A k \in DOMAIN points :
                  contours_by_dist[d][k] = None)
           => result = <<>>

\* C18 witness: a returned run of two thresholds and two origins, one that
\* did not snap and one that snapped and got no contour, with no record
C18_Witness ==
    /\ pc = "returned" /\ path = "multi" /\ Len(points) = 2
    /\ \E k \in 1..2 : centers[k] = NoNode
    /\ \E k \in 1..2 : centers[k] # NoNode
    /\ result = <<>>

\* the run of the engine on the batch of the one origin p, on the graph and
\* with the parameters of the current run: its contour lists and its rows
AloneContours(p) ==
    LET ds == DistancesSorted(distances_m)
        q == KDQuery(kdtree, p)
        cbd == [d \in Range(ds) |-> <<>>]
    IN  IF SnapFails(q, max_snap_dist) THEN {SkipContours(cbd)}
        ELSE UNION {
               {[d \in Range(ds) |->
                   Append(cbd[d],
                          Contour(G, IF Len(ds) = 1 THEN DOMAIN dm
                                     ELSE NodesWithin(dm, d),
                                  boundary_mode, has_alphashape,
                                  edge_width_m, smooth_m))]} :
               dm \in {Dijkstra(G, node_keys[q.idx], ds[Len(ds)])}}
AloneRows(p) ==
    UNION {
      {<<r.pt, r.dist_m, r.geometry>> :
          r \in Range(ConcatRows(<<p>>, cbd, DistancesSorted(distances_m), 1))} :
      cbd \in AloneContours(p)}

\* C21: while the engine runs, no step changes the graph, the KD-tree or
\* node_keys; and when it returns, the records of every origin of the batch
\* are the records of a run on that origin alone, whatever other origins the
\* batch holds and whatever their order.
C21_OriginsIndependent ==
    /\ [][(pc \in {"call", "loop"}) =>
              (G' = G /\ kdtree' = kdtree /\ node_keys' = node_keys)]_vars
    /\ [](pc = "returned" =>
              \A k \in DOMAIN points :
                  {<<r.pt, r.dist_m, r.geometry>> :
                      r \in {x \in Range(result) : x.id = k}}
                    = AloneRows(points[k]))

\* C21 witness: a returned batch of two different origins, each with records
\* that the other does not have
C21_Witness ==
    /\ pc = "returned" /\ Len(points) = 2
    /\ points[1] # points[2]
    /\ RowsOfOrigin(1) # {} /\ RowsOfOrigin(2) # {}
    /\ RowsOfOrigin(1) # RowsOfOrigin(2)

\* the contour that belongs to processed origin k for threshold d: none when
\* the origin did not snap, otherwise the contour of the nodes at most d away
\* from its snapped node
ContourOfOrigin(k, d) ==
    IF centers[k] = NoNode THEN None
    ELSE CHOOSE c \in
           {Contour(G, {n \in Range(G.nodes) : sp[n] <= d}, boundary_mode,
                    has_alphashape, edge_width_m, smooth_m) :
               sp \in {ShortestLengths(G, centers[k])}} : TRUE

\* C23: once i origins are processed, the contour list of every threshold has
\* exactly i entries and entry k is the contour of origin k (None for a
\* skipped one); so at the return every list has one entry per origin and
\* every record carries the attributes of the origin its polygon was made
\* from, whatever happened to earlier origins.
C23_ContoursAligned ==
    (pc \in {"loop", "returned"}) =>
        /\ DOMAIN contours_by_dist = Thresholds
        /\ \A d \in Thresholds :
              /\ Len(contours_by_dist[d]) = i
              /\ \A k \in 1..i : contours_by_dist[d][k] = ContourOfOrigin(k, d)
        /\ (pc = "returned") =>
              /\ i = Len(points)
              /\ \A j \in DOMAIN result :
                    /\ result[j].pt = points[result[j].id]
                    /\ result[j].geometry =
                          ContourOfOrigin(result[j].id, result[j].dist_m)

\* C23 witness: a returned multi-threshold run whose first origin was skipped
\* and whose second origin has its record, at position 2 of the contour list
C23_Witness ==
    /\ pc = "returned" /\ path = "multi" /\ i = 2
    /\ centers[1] = NoNode /\ centers[2] # NoNode
    /\ \E d \in Thresholds :
          /\ contours_by_dist[d] = <<None, ContourOfOrigin(2, d)>>
          /\ contours_by_dist[d][2] # None
          /\ \E j \in DOMAIN result :
                /\ result[j].id = 2 /\ result[j].dist_m = d
                /\ result[j].pt = points[2]

\* C24: in the multi-threshold path the progress counter stands at the number
\* of origins processed times the number of thresholds: it grows by that
\* number with every origin, skipped or not, never shrinks, never exceeds
\* total_points * total_d and equals it when the loop has ended, so the
\* fraction iso_completed / total_iso lies between 0 and 1.
C24_ProgressCounter ==
    /\ [](path = "multi" /\ pc \in {"loop", "returned"} =>
            \A ds \in {DistancesSorted(distances_m)} :
                /\ iso_completed = i * Len(ds)
                /\ iso_completed <= Len(points) * Len(ds)
                /\ (i = Len(points)) => iso_completed = Len(points) * Len(ds)
                /\ 0 <= iso_completed /\ iso_completed <= TotalIso(points, ds))
    /\ [][(path = "multi" /\ pc = "loop" /\ i' = i + 1) =>
              iso_completed' =
                  iso_completed + Len(DistancesSorted(distances_m))]_vars
    /\ [][iso_completed' >= iso_completed]_vars

\* C24 witness: a multi-threshold run of two origins, one skipped and one
\* processed, has counted all four pairs
C24_Witness ==
    /\ path = "multi" /\ pc = "returned" /\ Len(points) = 2
    /\ Cardinality(Thresholds) = 2
    /\ \E k \in 1..2 : centers[k] = NoNode
    /\ \E k \in 1..2 : centers[k] # NoNode
    /\ iso_completed = 4

\* cutoffs below, at and above the edge lengths
CutoffVals == {-50, 0, 50, 100, 150}

\* C25: a search from the snapped node of a processed origin holds that node
\* at distance 0 for every cutoff, negative ones included; the distance map of
\* the run is never empty, no 'no reachable nodes' warning is ever recorded,
\* and the node set of every threshold d >= 0 holds the snapped node.
C25_SourceAlwaysReached ==
    /\ \A j \in DOMAIN allWarnings : allWarnings[j][2] # "no reachable nodes"
    /\ \A k \in 1..i :
          centers[k] # NoNode =>
              \A c \in CutoffVals :
                  \A dm \in {Dijkstra(G, centers[k], c)} :
                      /\ centers[k] \in DOMAIN dm
                      /\ dm[centers[k]] = 0
    /\ (i >= 1 /\ centers[i] # NoNode) =>
          /\ centers[i] \in DOMAIN dists /\ dists[centers[i]] = 0
          /\ \A d \in DOMAIN within : d >= 0 => centers[i] \in within[d]

\* C25 witness: a multi-threshold origin that reaches no node but its own:
\* the distance map and every node set hold that node alone, without warning
C25_Witness ==
    /\ path = "multi" /\ i >= 1 /\ centers[i] # NoNode
    /\ Neighbors(G, centers[i]) # {}
    /\ dists = [n \in {centers[i]} |-> 0]
    /\ \A d \in DOMAIN within : within[d] = {centers[i]}
    /\ allWarnings = <<>>

\* the records compute_isochrones_for_distance returns for threshold d on the
\* graph, the batch and the parameters of the current run
SinglePathRows(d) ==
    RowsOf(points,
           [k \in DOMAIN points |->
               LET q == KDQuery(kdtree, points[k])
               IN  IF SnapFails(q, max_snap_dist) THEN None
                   ELSE Contour(G, DOMAIN Dijkstra(G, node_keys[q.idx], d),
                                boundary_mode, has_alphashape,
                                edge_width_m, smooth_m)],
           d)

\* the records tagged d of the multi-threshold loop run with the thresholds T
MultiPathRows(d, T) ==
    RowsOf(points,
           [k \in DOMAIN points |->
               LET q == KDQuery(kdtree, points[k])
               IN  IF SnapFails(q, max_snap_dist) THEN None
                   ELSE Contour(G, NodesWithin(Dijkstra(G, node_keys[q.idx], Max(T)), d),
                                boundary_mode, has_alphashape,
                                edge_width_m, smooth_m)],
           d)

\* the threshold sets that hold d and make the engine take its loop
LoopSetsWith(d) ==
    {S \in SUBSET (DistVals \cup SignedDistVals) : d \in S /\ Cardinality(S) >= 2}

\* the two paths agree on threshold d in the returned run
PathsAgreeOn(d) ==
    /\ (path = "multi") =>
          SelectSeq(result, LAMBDA r : r.dist_m = d) = SinglePathRows(d)
    /\ (path = "single") =>
          \A T \in LoopSetsWith(d) : result = MultiPathRows(d, T)

\* C27 as stated: for every threshold d the records tagged d of a returned
\* multi-threshold run are the records the single-threshold path returns for
\* d, and the records of a returned single-threshold run for d are the records
\* tagged d of the multi-threshold loop for every threshold set that holds d.
C27_SinglePathEquivalent ==
    (pc = "returned") => \A d \in Thresholds : PathsAgreeOn(d)

\* C27, amended: the two paths return the same records, in the same order,
\* for every threshold d >= 0, and for a negative d in buffer mode or without
\* alphashape, where neither returns a record.  For a negative d in concave
\* mode with alphashape the single-threshold path returns one record per
\* snapped origin and the multi-threshold loop returns none tagged d.
C27_PathsAgreeFromZero ==
    (pc = "returned") =>
        \A d \in Thresholds :
            IF d >= 0 \/ boundary_mode = "buffer" \/ ~has_alphashape
            THEN PathsAgreeOn(d)
            ELSE /\ (path = "multi") =>
                       /\ \A j \in DOMAIN result : result[j].dist_m # d
                       /\ Len(SinglePathRows(d)) =
                              Cardinality({k \in DOMAIN points : centers[k] # NoNode})
                 /\ (path = "single") =>
                       /\ Len(result) =
                              Cardinality({k \in DOMAIN points : centers[k] # NoNode})
                       /\ \A T \in LoopSetsWith(d) : MultiPathRows(d, T) = <<>>

\* C27 witness: a returned multi-threshold run with a record for each of two
\* thresholds, of different polygons, next to a threshold of zero
C27_Witness ==
    /\ pc = "returned" /\ path = "multi"
    /\ \E j1 \in DOMAIN result : \E j2 \in DOMAIN result :
          /\ result[j1].id = result[j2].id
          /\ 0 <= result[j1].dist_m
          /\ result[j1].dist_m < result[j2].dist_m
          /\ result[j1].geometry # result[j2].geometry
          /\ SinglePathRows(result[j1].dist_m) # <<>>

-----------------------------------------------------------------------------
(* Properties of a session and of the engine called directly (SpecSession)  *)

ComputeHandlers == {"compute", "run_isochrone_computation"}

\* concave mode is asked for and alphashape is not installed: of the engine
\* called directly, or of the compute handler run last
ConcaveUnavailableDirect ==
    /\ ui = "direct" /\ boundary_mode = "concave" /\ ~has_alphashape
    /\ pc \notin {"build", "build_raised"}
ConcaveUnavailableHandler ==
    /\ ui \in {"app", "steps"} /\ ~has_alphashape
    /\ handler.name \in ComputeHandlers /\ handler.mode = "concave"

C17_CrsMismatchStops ==
    [][(/\ clicks' = clicks + 1
        /\ handler'.name \in ComputeHandlers
        /\ session_state.graph_data # None
        /\ session_state.graph_data.crs # handler'.crs)
       =>
       (/\ pc' = "idle" /\ i' = 0 /\ searches' = <<>>
        /\ handler'.ret \in {"False", "None"}
        /\ handler'.msg \in {"error_upload_points", "error_valid_distance",
                             "error_concave_missing", "crs_mismatch_error"}
        /\ session_state'.graph_data = session_state.graph_data
        /\ session_state'.roads_gdf = session_state.roads_gdf
        /\ session_state'.iso_wgs84 = session_state.iso_wgs84)]_vars

\* C17 witness: a compute was refused for the CRS of its query while a graph
\* of another CRS is cached and isochrones of an earlier run are stored
C17_Witness ==
    /\ handler.name \in ComputeHandlers
    /\ handler.msg = "crs_mismatch_error"
    /\ session_state.graph_data # None
    /\ session_state.graph_data.crs # handler.crs
    /\ session_state.iso_wgs84 # None
    /\ pc = "idle"

\* C22: a run of run_isochrone_computation without thresholds returns False
\* with an input error, leaves the session as it was (no road layer fetched,
\* no graph built) and does not call the engine; and the engine called
\* directly without thresholds ends before its origin loop: no origin is
\* snapped or searched and nothing is returned.
C22_NoThresholdRejected ==
    /\ [][(/\ clicks' = clicks + 1
           /\ handler'.name = "run_isochrone_computation"
           /\ handler'.distances = <<>>)
          =>
          (/\ handler'.ret = "False"
           /\ handler'.msg \in {"error_upload_points", "error_valid_distance"}
           /\ session_state' = session_state
           /\ pc' = "idle" /\ i' = 0 /\ searches' = <<>>)]_vars
    /\ []((ui = "direct" /\ distances_m = <<>>) =>
              /\ pc \in {"build", "build_raised", "call", "raised"}
              /\ i = 0 /\ centers = <<>> /\ searches = <<>>
              /\ result = None)

\* C22 witness: a session with a point layer and no graph, in which the
\* computation was asked for without thresholds from OSM roads and refused
C22_Witness ==
    /\ handler.name = "run_isochrone_computation"
    /\ handler.distances = <<>> /\ handler.ret = "False"
    /\ handler.msg = "error_valid_distance"
    /\ session_state.points_gdf # None
    /\ session_state.roads_gdf = None /\ session_state.graph_data = None

\* the cached graph, its KD-tree and its node list are the ones that
\* build_graph_from_roads gives for the roads the session holds
GraphOfCurrentRoads(ss) ==
    ss.graph_data # None =>
        /\ ss.roads_gdf # None
        /\ ss.graph_data = GraphData(ss.roads_gdf.geometry, ss.graph_data.crs)

\* C28 (as claimed): after any sequence of handlers of either front end (road
\* upload, OSM download, failed or successful graph build, clear), whenever
\* session_state["graph_data"] is not None its graph, KD-tree and node_keys
\* were built together from the roads held in session_state["roads_gdf"]: a
\* cached graph never outlives a replacement of the roads.
C28_GraphCacheFresh ==
    ui \in {"app", "steps"} => GraphOfCurrentRoads(session_state)

\* C29 (as claimed): in app.main a graph built with "Build graph using current
\* roads" stays cached over the runs of the script that follow, until the
\* roads are replaced or "Clear all" is pressed; with a road file still in the
\* uploader, "Compute isochrones" pressed right after a successful build finds
\* graph_data not None and, its other inputs being valid, calls the engine.
C29_GraphStaysCached ==
    /\ [][(/\ ui = "app" /\ clicks' = clicks + 1
           /\ session_state.graph_data # None
           /\ handler'.name \notin {"upload_roads", "download_roads",
                                    "clear_all"})
          => session_state'.graph_data = session_state.graph_data]_vars
    /\ [][(/\ ui = "app" /\ clicks' = clicks + 1
           /\ roads_file # None
           /\ handler.name = "build_graph" /\ handler.msg = "graph_built"
           /\ handler'.name = "compute"
           /\ session_state.points_gdf # None
           /\ handler'.distances # <<>>
           /\ ~(handler'.mode = "concave" /\ ~has_alphashape))
          => (session_state'.graph_data # None /\ handler'.ret = "running")]_vars

\* run_isochrone_computation is waiting for the engine
WorkflowRunning ==
    handler.name = "run_isochrone_computation" /\ handler.ret = "running"
\* a step that enters run_isochrone_computation
WorkflowEntry ==
    clicks' = clicks + 1 /\ handler'.name = "run_isochrone_computation"
\* the step in which run_isochrone_computation returns after the engine
WorkflowExit == WorkflowRunning /\ handler'.ret # "running"

\* C30: run_isochrone_computation writes session_state["iso_wgs84"] only when
\* it returns True, which it does only when the engine returned at least one
\* record; on every False outcome (no points, no thresholds, concave
\* unavailable, roads or graph unavailable, CRS mismatch, engine exception,
\* empty result) the isochrones stored before are left as they were.
C30_IsoWrittenOnlyOnTrue ==
    /\ [][(WorkflowEntry \/ WorkflowRunning) =>
             /\ (handler'.ret # "True" =>
                    session_state'.iso_wgs84 = session_state.iso_wgs84)
             /\ (handler'.ret = "True" =>
                    /\ WorkflowExit /\ pc = "returned" /\ Len(result) > 0
                    /\ session_state'.iso_wgs84 = IsoFrame(result, handler.crs))
             /\ ((WorkflowExit /\ pc = "returned" /\ Len(result) > 0) =>
                    handler'.ret = "True")]_vars
    /\ [][(WorkflowEntry /\ handler'.ret # "running") =>
             handler'.ret = "False"]_vars
    /\ [][(WorkflowExit /\ ~(pc = "returned" /\ Len(result) > 0)) =>
             handler'.ret = "False"]_vars

\* run_isochrone_computation has returned False with isochrones of an earlier
\* run still stored
C30_Witness ==
    /\ handler.name = "run_isochrone_computation" /\ handler.ret = "False"
    /\ handler.msg \in {"no_iso_warning", "iso_compute_error"}
    /\ session_state.iso_wgs84 # None

-----------------------------------------------------------------------------
(* Properties of concave_isochrone_from_subgraph (SpecConcave)              *)

Degenerate(c) == c.pc = "returned" /\ c.pts # {} /\ Cardinality(c.pts) < 4

\* C19 as stated: with one, two or three reachable nodes the call returns
\* exactly the convex hull of the nodes, whatever alpha is given.
C19_ReturnsConvexHull ==
    Degenerate(concave_call) => concave_call.result = ConvexHull(concave_call.pts)

\* C19, amended: with one, two or three reachable nodes the result depends on
\* the nodes alone, not on alpha or on the alphashape library: it is the
\* convex hull when that is a polygon (three nodes not on a line), and the
\* hull buffered by 1.0 when the hull is a point or a line.
C19_DegenerateFallback ==
    Degenerate(concave_call) =>
        \A hull \in {ConvexHull(concave_call.pts)} :
            concave_call.result =
                IF hull.type = "Polygon" THEN hull ELSE Buffer(hull, 1)

\* two nodes and a positive alpha: the segment between them, buffered
C19_Witness ==
    /\ Degenerate(concave_call)
    /\ Cardinality(concave_call.pts) = 2
    /\ concave_call.alpha.given /\ concave_call.alpha.value > 0
    /\ concave_call.result.type = "Polygon"
    /\ concave_call.result.buffer = 1
    /\ concave_call.result.shell = concave_call.pts

-----------------------------------------------------------------------------
(* The specification of the whole: a graph build read geometry by geometry, *)
(* or a run on one of the road collections                                  *)

Init == InitBuild \/ InitRun
Next == NextBuild \/ NextRun
Spec == Init /\ [][Next]_vars

=============================================================================
